---- MODULE Spec2Model ----
(***************************************************************************)
(* The voice websocket of acord (src/acord/voice/core.py, VoiceWebsocket)  *)
(* as a state machine.  One controller object, the asyncio tasks that run  *)
(* on it (the caller's lifecycle calls, the receive task created by        *)
(* listen(), the audio senders) and the voice server that feeds the        *)
(* control channel.  Every action is one run of a coroutine between two    *)
(* of its suspension points (await), which is the unit asyncio schedules.  *)
(***************************************************************************)
EXTENDS Integers, Sequences, FiniteSets, TLC

(* ------------------------------ bounds -------------------------------- *)
MaxMsgs == 3          \* control messages the server delivers in a run
MaxSends == 2         \* send_audio_packet calls in a run
MaxConnections == 2   \* connect() calls in a run (the CONNECTIONS global)
MaxCalls == 2         \* disconnect()/reconnect() calls of the caller in a run

(* ------------------------- program constants -------------------------- *)
SeqLimit == 65535            \* largest value pack_into('>H') accepts

\* A 32-bit quantity is held as two 16-bit digits, high digit first: TLC's
\* integers are 32-bit signed and cannot hold 4294967295.
NonceLimit == <<65535, 65535>>     \* 4294967295, the limit handed to checked_add

supported_modes ==
    {"xsalsa20_poly1305_lite", "xsalsa20_poly1305_suffix", "xsalsa20_poly1305"}

(* ------------------------- inputs of the model ------------------------ *)
\* The modes lists a READY message may advertise.
ModeLists ==
    { <<"xsalsa20_poly1305">>,
      <<"xsalsa20_poly1305_lite">>,
      <<"aead_aes256_gcm">>,
      <<"aead_aes256_gcm", "xsalsa20_poly1305">> }
\* The mode keyword the caller may hand to listen(); "" is no keyword.
CallerModes == {"", "xsalsa20_poly1305_suffix"}
Addresses == {"1.2.3.4"}
Ports == {5000}
Ssrcs == {42}
Advances == {960}
HasHeader == BOOLEAN
Senders == {"s1", "s2"}
\* The sender of a caller that keeps the contract: one send at a time.
SerialSenders == {"s1"}

ReadyMsgs ==
    [op : {2}, ip : Addresses, port : Ports, ssrc : Ssrcs, modes : ModeLists]

VARIABLES
    \* fields of VoiceWebsocket
    _ws,            \* "none" (None) | "open" | "closed" (a closed websocket object)
    _keep_alive,    \* "none" (None) | "running" | "ended"
    _ready_packet,  \* <<>> (None) | <<the READY message>>
    _sock,          \* "none" (None) | "open" | "closed" (a closed UDPConnection)
    _listener,      \* "none" (None) | "task"
    sequence, timestamp, ssrc, _lite_nonce,
    mode,           \* "" (None) | a mode name
    _decode_key,    \* 0 (the attribute does not exist) | n, the key the server
                    \* issued for the session of connection n
    connect_event, send_event, disconnected,
    _conn_id,       \* 0 (the attribute does not exist) | CONNECTIONS at connect
    CONNECTIONS,    \* the module global
    \* the caller's task
    cpc,            \* "idle" | "disc_ws_close" | "disc_sock_close" | "reconn_ws_connect"
    call,           \* the caller's current or last call and how it ended
    \* the receive task created by listen()
    lpc,            \* where the task stands
    ldata,          \* <<>> | <<the READY message being handled>> (data)
    lkwargs,        \* the mode keyword handed to listen(), "" when none
    lconn,          \* <<>> | <<the address of the UDPConnection being connected>>
    lsel,           \* <<>> | <<the protocol-selection message being sent>>
    lerr,           \* the exception that ended the task, "" when none
    \* the audio sender tasks
    spc, sdata, sres,
    \* the environment
    delivered,      \* number of control messages the server has delivered
    sends,          \* number of send_audio_packet calls made
    calls,          \* number of disconnect()/reconnect() calls made
    \* observations
    monitors,       \* heartbeat monitors started and not ended
    transports,     \* UDP transports opened and not closed
    written,        \* the datagrams written to the UDP socket, in order
    phase,          \* "idle" | "connected" (control channel open) | "ready" (READY
                    \* received on this connection) | "streaming" (then
                    \* SESSION_DESCRIPTION received)
    established,    \* TRUE when a READY was handled to its end on the current
                    \* connection: its mode, SSRC and UDP transport are in place
    teardown        \* per task, the teardown steps of its last disconnect()

fields == <<_ws, _keep_alive, _ready_packet, _sock, _listener, sequence, timestamp,
            ssrc, _lite_nonce, mode, _decode_key, connect_event, send_event,
            disconnected, _conn_id, CONNECTIONS>>
callerVars == <<cpc, call>>
listenerVars == <<lpc, ldata, lkwargs, lconn, lsel, lerr>>
senderVars == <<spc, sdata, sres>>
envVars == <<delivered, sends, calls>>
obsVars == <<monitors, transports, written, phase, established, teardown>>
vars == <<fields, callerVars, listenerVars, senderVars, envVars, obsVars>>

Tasks == {"caller", "listener"}

NoCall == [op |-> "none", res |-> "none"]
NoPacket == [header |-> <<>>, enc |-> "", key |-> 0, nonce |-> <<>>,
             has_header |-> FALSE, advance |-> 0]

\* VoiceWebsocket.__init__
InitFields ==
    /\ _ws = "none" /\ _keep_alive = "none" /\ _ready_packet = <<>>
    /\ _sock = "none" /\ _listener = "none"
    /\ sequence = 0 /\ timestamp = 0 /\ ssrc = 0 /\ _lite_nonce = <<0, 0>>
    /\ mode = "" /\ _decode_key = 0
    /\ connect_event = FALSE /\ send_event = FALSE /\ disconnected = TRUE
    /\ _conn_id = 0 /\ CONNECTIONS = 0

InitRest ==
    /\ cpc = "idle" /\ call = NoCall
    /\ lpc = "none" /\ ldata = <<>> /\ lkwargs = "" /\ lconn = <<>> /\ lsel = <<>>
    /\ lerr = ""
    /\ spc = [s \in Senders |-> "idle"]
    /\ sdata = [s \in Senders |-> NoPacket]
    /\ sres = [s \in Senders |-> "none"]
    /\ delivered = 0 /\ sends = 0 /\ calls = 0
    /\ monitors = 0 /\ transports = 0 /\ written = <<>> /\ phase = "idle"
    /\ established = FALSE
    /\ teardown = [t \in Tasks |-> <<>>]

Init == InitFields /\ InitRest

(* ------------------------- how a coroutine ends ------------------------ *)
\* The coroutine run by task t ends by raising e.  The caller's call record c
\* takes the error; an exception in the receive task ends the task.
Raise(t, c, e) ==
    IF t = "caller"
    THEN cpc' = "idle" /\ call' = [c EXCEPT !.res = e] /\ UNCHANGED <<lpc, lerr>>
    ELSE lpc' = "dead" /\ lerr' = e /\ UNCHANGED <<cpc, call>>

\* Task t stops at an await and will resume at position pc.
Suspend(t, c, pc) ==
    IF t = "caller"
    THEN cpc' = pc /\ call' = c /\ UNCHANGED <<lpc, lerr>>
    ELSE lpc' = pc /\ UNCHANGED <<lerr, cpc, call>>

\* disconnect() returns to task t.  In the caller it ends the call, or lets
\* reconnect() go on to its connect(); in the receive task it is followed by
\* the break of the loop.  cancelled: this run cancelled the receive task.
DisconnectReturns(t, c, cancelled) ==
    IF t = "caller"
    THEN /\ IF c.op = "reconnect"
            THEN cpc' = "reconn_ws_connect" /\ call' = c
            ELSE cpc' = "idle" /\ call' = [c EXCEPT !.res = "ok"]
         /\ lpc' = IF cancelled /\ lpc \notin {"none", "done", "dead", "cancelled"}
                   THEN "cancelled" ELSE lpc
         /\ lerr' = lerr
    ELSE lpc' = "done" /\ UNCHANGED <<lerr, cpc, call>>

\* A connect() that starts every session from fresh counters.
ConnectEffectReset ==
    /\ CONNECTIONS' = CONNECTIONS + 1
    /\ _conn_id' = CONNECTIONS + 1
    /\ _ws' = "open"
    /\ disconnected' = FALSE
    /\ phase' = "connected"
    /\ established' = FALSE
    /\ sequence' = 0 /\ timestamp' = 0 /\ _lite_nonce' = <<0, 0>>
    /\ UNCHANGED <<_keep_alive, _ready_packet, _sock, _listener,
                   ssrc, mode, _decode_key, connect_event, send_event>>
    /\ UNCHANGED <<monitors, transports, written, teardown>>

(* ------------------------------ connect() ------------------------------ *)
\* connect(): everything it changes is changed after its one await.
ConnectEffect ==
    /\ CONNECTIONS' = CONNECTIONS + 1
    /\ _conn_id' = CONNECTIONS + 1
    /\ _ws' = "open"
    /\ disconnected' = FALSE
    /\ phase' = "connected"
    /\ established' = FALSE
    /\ UNCHANGED <<_keep_alive, _ready_packet, _sock, _listener, sequence, timestamp,
                   ssrc, _lite_nonce, mode, _decode_key, connect_event, send_event>>
    /\ UNCHANGED <<monitors, transports, written, teardown>>

Connect ==
    /\ cpc = "idle"
    /\ CONNECTIONS < MaxConnections
    /\ ConnectEffect
    /\ call' = [op |-> "connect", res |-> "ok"]
    /\ UNCHANGED <<cpc, listenerVars, senderVars, envVars>>

(* ----------------------------- disconnect() ---------------------------- *)
\* The first two teardown steps the other way round: the channel is closed
\* while the heartbeat monitor still runs on it.
StopAndCloseSwapped(log) == log \o <<"ws.close", "keep_alive.end">>

\* keep_alive.end() followed by ws.close(): the first two teardown steps.
StopAndClose(log) == log \o <<"keep_alive.end", "ws.close">>

\* disconnect() from its entry to its first await (ws.close).
DisconnectEnter(t, c) ==
    IF disconnected
    THEN /\ IF _conn_id = 0
            THEN /\ Raise(t, c, "AttributeError")   \* the warning formats self._conn_id
                 /\ _ws' = _ws
            ELSE /\ DisconnectReturns(t, c, FALSE)
                 \* reconnect() goes on with self._ws = None
                 /\ _ws' = IF t = "caller" /\ c.op = "reconnect" THEN "none" ELSE _ws
         /\ teardown' = [teardown EXCEPT ![t] = <<>>]
         /\ UNCHANGED <<_keep_alive, _ready_packet, _sock, _listener, sequence, timestamp,
                        ssrc, _lite_nonce, mode, _decode_key, connect_event, send_event,
                        disconnected, _conn_id, CONNECTIONS>>
         /\ UNCHANGED <<monitors, transports, written, phase, established>>
    ELSE IF _keep_alive = "none"
    THEN /\ Raise(t, c, "ConnectionError")
         /\ teardown' = [teardown EXCEPT ![t] = <<>>]
         /\ UNCHANGED <<fields, monitors, transports, written, phase, established>>
    ELSE /\ _keep_alive' = "ended"
         /\ monitors' = IF _keep_alive = "running" THEN monitors - 1 ELSE monitors
         \* closing the channel may fail; the exception is swallowed
         /\ \E closed \in BOOLEAN :
               _ws' = IF _ws = "open" /\ closed THEN "closed" ELSE _ws
         /\ teardown' = [teardown EXCEPT ![t] = StopAndClose(<<>>)]
         /\ Suspend(t, c, "disc_ws_close")
         /\ UNCHANGED <<_ready_packet, _sock, _listener, sequence, timestamp, ssrc,
                        _lite_nonce, mode, _decode_key, connect_event, send_event,
                        disconnected, _conn_id, CONNECTIONS>>
         /\ UNCHANGED <<transports, written, phase, established>>

\* The end of disconnect(): the references are dropped, the receive task is
\* cancelled and the controller is marked disconnected.
DisconnectFinish(t, log) ==
    /\ _ws' = "none" /\ _sock' = "none" /\ _keep_alive' = "none"
    /\ _listener' = "none"
    /\ disconnected' = TRUE
    /\ teardown' = [teardown EXCEPT ![t] =
                       IF _listener = "task" THEN log \o <<"listener.cancel">> ELSE log]
    /\ DisconnectReturns(t, call, _listener = "task")
    /\ UNCHANGED <<_ready_packet, sequence, timestamp, ssrc, _lite_nonce, mode,
                   _decode_key, connect_event, send_event, _conn_id, CONNECTIONS>>
    /\ phase' = "idle"
    /\ established' = FALSE
    /\ UNCHANGED <<monitors, written>>

\* disconnect() resumed after ws.close(): closes the socket if there is one.
DisconnectAfterWsClose(t) ==
    IF _sock # "none"
    THEN /\ _sock' = "closed"
         /\ transports' = IF _sock = "open" THEN transports - 1 ELSE transports
         /\ teardown' = [teardown EXCEPT ![t] = @ \o <<"sock.close">>]
         /\ Suspend(t, call, "disc_sock_close")
         /\ UNCHANGED <<_ws, _keep_alive, _ready_packet, _listener, sequence, timestamp,
                        ssrc, _lite_nonce, mode, _decode_key, connect_event, send_event,
                        disconnected, _conn_id, CONNECTIONS>>
         /\ UNCHANGED <<monitors, written, phase, established>>
    ELSE DisconnectFinish(t, teardown[t]) /\ UNCHANGED transports

\* disconnect() resumed after sock.close(): the log line reads self._sock._sock.
DisconnectAfterSockClose(t) ==
    IF _sock = "none"
    THEN /\ Raise(t, call, "AttributeError")
         /\ UNCHANGED <<fields, obsVars>>
    ELSE DisconnectFinish(t, teardown[t]) /\ UNCHANGED transports

NewCall(op) == [op |-> op, res |-> "none"]

\* The caller calls disconnect().
CallDisconnect ==
    /\ cpc = "idle"
    /\ calls < MaxCalls
    /\ calls' = calls + 1
    /\ DisconnectEnter("caller", NewCall("disconnect"))
    /\ UNCHANGED <<ldata, lkwargs, lconn, lsel, senderVars, delivered, sends>>

\* The caller's disconnect() or reconnect() resumes after ws.close().
CallerAfterWsClose ==
    /\ cpc = "disc_ws_close"
    /\ DisconnectAfterWsClose("caller")
    /\ UNCHANGED <<ldata, lkwargs, lconn, lsel, senderVars, envVars>>

\* The caller's disconnect() or reconnect() resumes after sock.close().
CallerAfterSockClose ==
    /\ cpc = "disc_sock_close"
    /\ DisconnectAfterSockClose("caller")
    /\ UNCHANGED <<ldata, lkwargs, lconn, lsel, senderVars, envVars>>

(* ----------------------------- reconnect() ----------------------------- *)
\* The caller calls reconnect(): its log line reads self._sock._sock, then it
\* runs disconnect().
CallReconnect ==
    /\ cpc = "idle"
    /\ calls < MaxCalls
    /\ calls' = calls + 1
    /\ IF _sock = "none"
       THEN /\ Raise("caller", NewCall("reconnect"), "AttributeError")
            /\ UNCHANGED <<fields, obsVars>>
       ELSE DisconnectEnter("caller", NewCall("reconnect"))
    /\ UNCHANGED <<ldata, lkwargs, lconn, lsel, senderVars, delivered, sends>>

\* reconnect() after its disconnect(): self._ws = None, then connect().
ReconnectConnect ==
    /\ cpc = "reconn_ws_connect"
    /\ ConnectEffect
    /\ cpc' = "idle"
    /\ call' = [call EXCEPT !.res = "ok"]
    /\ UNCHANGED <<listenerVars, senderVars, envVars>>

(* ------------------------------- listen() ------------------------------ *)
LiveListener == lpc \notin {"none", "done", "dead", "cancelled"}

\* The caller calls listen(**kwargs): a task running _handle_voice is created.
\* The model holds one receive task at a time.
Listen ==
    /\ cpc = "idle"
    /\ ~LiveListener
    /\ \E m \in CallerModes : lkwargs' = m
    /\ lpc' = "start" /\ ldata' = <<>> /\ lconn' = <<>> /\ lsel' = <<>> /\ lerr' = ""
    /\ _listener' = "task"
    /\ call' = [NewCall("listen") EXCEPT !.res = "ok"]
    /\ UNCHANGED <<_ws, _keep_alive, _ready_packet, _sock, sequence, timestamp, ssrc,
                   _lite_nonce, mode, _decode_key, connect_event, send_event,
                   disconnected, _conn_id, CONNECTIONS>>
    /\ UNCHANGED <<cpc, senderVars, envVars, obsVars>>

(* ---------------------------- _handle_voice ---------------------------- *)
\* What send_json does on the control channel in state w: "" when it sends.
SendJsonError(w) ==
    CASE w = "none" -> "AttributeError"
      [] w = "closed" -> "ConnectionResetError"
      [] OTHER -> ""

\* The receive task starts: the websocket check and the identify message.
ListenerStart ==
    /\ lpc = "start"
    /\ IF _ws = "none"
       THEN lpc' = "dead" /\ lerr' = "ValueError: no websocket"
       ELSE IF SendJsonError(_ws) # ""
       THEN lpc' = "dead" /\ lerr' = SendJsonError(_ws)
       ELSE lpc' = "recv" /\ lerr' = lerr
    /\ UNCHANGED <<fields, callerVars, ldata, lkwargs, lconn, lsel, senderVars, envVars, obsVars>>

Receiving == lpc = "recv" /\ _ws = "open" /\ delivered < MaxMsgs

\* op 8: HELLO.  A new VoiceKeepAlive is created and started.
RecvHello ==
    /\ Receiving
    /\ delivered' = delivered + 1
    /\ _keep_alive' = "running"
    /\ monitors' = monitors + 1
    /\ UNCHANGED <<_ws, _ready_packet, _sock, _listener, sequence, timestamp, ssrc,
                   _lite_nonce, mode, _decode_key, connect_event, send_event,
                   disconnected, _conn_id, CONNECTIONS>>
    /\ UNCHANGED <<callerVars, listenerVars, senderVars, sends, calls,
                   transports, written, phase, established, teardown>>

\* A discovery that goes to the local host instead of the server's address.
UdpTargetLocal(rp) == [ip |-> "127.0.0.1", port |-> rp[1].port]

\* The address upd_connect hands to UDPConnection: the one of self._ready_packet.
UdpTarget(rp) == [ip |-> rp[1].ip, port |-> rp[1].port]

\* op 2: READY, up to the await of conn.connect() in upd_connect.
RecvReady ==
    /\ Receiving
    /\ delivered' = delivered + 1
    /\ \E m \in ReadyMsgs :
          /\ _ready_packet' = <<m>>
          /\ ldata' = <<m>>
          /\ lconn' = <<UdpTarget(<<m>>)>>
    /\ transports' = transports + 1
    /\ lpc' = "udp_connect"
    /\ phase' = IF phase = "connected" THEN "ready" ELSE phase
    /\ UNCHANGED <<_ws, _keep_alive, _sock, _listener, sequence, timestamp, ssrc,
                   _lite_nonce, mode, _decode_key, connect_event, send_event,
                   disconnected, _conn_id, CONNECTIONS>>
    /\ UNCHANGED <<callerVars, lkwargs, lsel, lerr, senderVars, sends, calls,
                   monitors, written, established, teardown>>

\* udp_payload: the mode of the protocol-selection message, "" when it raises.
SelectedMode(kw, rp) ==
    LET m == IF kw = "" THEN rp[1].modes[1] ELSE kw
    IN IF m \in supported_modes THEN m ELSE ""

\* READY after conn.connect(): self._sock = conn, then the protocol-selection
\* message is built by udp_payload and sent.
ListenerUdpConnected ==
    /\ lpc = "udp_connect"
    /\ _sock' = "open"
    /\ lconn' = <<>>
    /\ LET m == SelectedMode(lkwargs, _ready_packet)
       IN IF m = ""
          THEN /\ lpc' = "dead" /\ lerr' = "ValueError: unknown mode"
               /\ mode' = mode /\ lsel' = lsel
          ELSE /\ mode' = m
               /\ IF SendJsonError(_ws) # ""
                  THEN lpc' = "dead" /\ lerr' = SendJsonError(_ws) /\ lsel' = lsel
                  ELSE /\ lpc' = "select_sent" /\ lerr' = lerr
                       /\ lsel' = <<[address |-> _ready_packet[1].ip,
                                     port |-> _ready_packet[1].port,
                                     mode |-> m]>>
    /\ UNCHANGED <<_ws, _keep_alive, _ready_packet, _listener, sequence, timestamp, ssrc,
                   _lite_nonce, _decode_key, connect_event, send_event,
                   disconnected, _conn_id, CONNECTIONS>>
    /\ UNCHANGED <<callerVars, ldata, lkwargs, senderVars, envVars, obsVars>>

\* READY after the protocol-selection message went out: the connected event
\* is set and the SSRC of the message is taken.
ListenerSelectSent ==
    /\ lpc = "select_sent"
    /\ connect_event' = TRUE
    /\ ssrc' = ldata[1].ssrc
    /\ lsel' = <<>>
    /\ lpc' = "recv"
    /\ established' = ~disconnected
    /\ UNCHANGED <<_ws, _keep_alive, _ready_packet, _sock, _listener, sequence,
                   timestamp, _lite_nonce, mode, _decode_key, send_event,
                   disconnected, _conn_id, CONNECTIONS>>
    /\ UNCHANGED <<callerVars, ldata, lkwargs, lconn, lerr, senderVars, envVars,
                   monitors, transports, written, phase, teardown>>

\* op 4: SESSION_DESCRIPTION.
RecvSession ==
    /\ Receiving
    /\ delivered' = delivered + 1
    /\ _decode_key' = _conn_id
    /\ send_event' = TRUE
    /\ phase' = IF phase = "ready" THEN "streaming" ELSE phase
    /\ UNCHANGED <<_ws, _keep_alive, _ready_packet, _sock, _listener, sequence,
                   timestamp, ssrc, _lite_nonce, mode, connect_event,
                   disconnected, _conn_id, CONNECTIONS>>
    /\ UNCHANGED <<callerVars, listenerVars, senderVars, sends, calls,
                   monitors, transports, written, established, teardown>>

\* op 13, or a message whose json() raises TypeError: disconnect(), then break.
RecvClose ==
    /\ Receiving
    /\ delivered' = delivered + 1
    /\ DisconnectEnter("listener", call)
    /\ UNCHANGED <<ldata, lkwargs, lconn, lsel, senderVars, sends, calls>>

\* A text message that is not JSON: message.json() raises JSONDecodeError, a
\* ValueError, which the except TypeError clause does not catch.
RecvNotJson ==
    /\ Receiving
    /\ delivered' = delivered + 1
    /\ lpc' = "dead" /\ lerr' = "JSONDecodeError"
    /\ UNCHANGED <<fields, callerVars, ldata, lkwargs, lconn, lsel, senderVars,
                   sends, calls, obsVars>>

\* A JSON message whose op is none of 8, 2, 4, 13: no branch takes it.
RecvUnknownOp ==
    /\ Receiving
    /\ delivered' = delivered + 1
    /\ UNCHANGED <<fields, callerVars, listenerVars, senderVars, sends, calls, obsVars>>

\* The receive task's disconnect() resumes after ws.close().
ListenerAfterWsClose ==
    /\ lpc = "disc_ws_close"
    /\ DisconnectAfterWsClose("listener")
    /\ UNCHANGED <<ldata, lkwargs, lconn, lsel, senderVars, envVars>>

\* The receive task's disconnect() resumes after sock.close().
ListenerAfterSockClose ==
    /\ lpc = "disc_sock_close"
    /\ DisconnectAfterSockClose("listener")
    /\ UNCHANGED <<ldata, lkwargs, lconn, lsel, senderVars, envVars>>

(* -------------------------- send_audio_packet -------------------------- *)
\* checked_add: the new value of the attribute.
\* val + value for a two-digit val: <<carry, high digit, low digit>>.
Add32(val, value) ==
    LET lo == val[2] + value
        hi == val[1] + (lo \div 65536)
    IN <<hi \div 65536, hi % 65536, lo % 65536>>

\* sum > limit, for a sum of Add32 and a two-digit limit.
Exceeds(sum, limit) ==
    \/ sum[1] > 0
    \/ sum[2] > limit[1]
    \/ sum[2] = limit[1] /\ sum[3] > limit[2]

\* checked_add with >= for >: the counter wraps one value early.
checked_add_early(val, value, limit) ==
    IF Exceeds(Add32(val, value), limit) \/ Add32(val, value) = <<0>> \o limit
    THEN <<0, 0>>
    ELSE <<Add32(val, value)[2], Add32(val, value)[3]>>

checked_add(val, value, limit) ==
    IF Exceeds(Add32(val, value), limit)
    THEN <<0, 0>>
    ELSE <<Add32(val, value)[2], Add32(val, value)[3]>>

\* _get_audio_packet: the error it raises in the present state, "" when it
\* returns a packet.  The header is packed first, then the encrypter is looked
\* up by the mode's name, then the encrypter reads the key.
GetAudioPacketError ==
    CASE sequence > SeqLimit -> "struct.error"
      [] mode = "" -> "AttributeError"
      [] _decode_key = 0 -> "AttributeError"
      [] OTHER -> ""

\* _get_audio_packet: the packet built from the counters, the mode and the key.
GetAudioPacket(advance) ==
    [header |-> <<sequence, timestamp, ssrc>>, enc |-> mode, key |-> _decode_key,
     nonce |-> IF mode = "xsalsa20_poly1305_lite" THEN _lite_nonce ELSE <<>>,
     has_header |-> FALSE, advance |-> advance]

\* A send path that encrypts the caller's framed bytes as well.
CallerPacketEncrypted(advance) ==
    [GetAudioPacket(advance) EXCEPT !.has_header = TRUE]

\* The caller's bytes when has_header is true: sent as they are.
CallerPacket(advance) == [NoPacket EXCEPT !.has_header = TRUE, !.advance = advance]

\* _encrypt_xsalsa20_poly1305_lite advances the nonce counter.
NonceAfterPacket ==
    IF mode = "xsalsa20_poly1305_lite"
    THEN checked_add(_lite_nonce, 1, NonceLimit) ELSE _lite_nonce

\* send_audio_packet from the call to its first await (the status message on
\* the control channel).  The caller declares a sample advance for the frame;
\* send_audio_packet has no parameter that takes it.
SendCall(s) ==
    /\ spc[s] = "idle"
    /\ sends < MaxSends
    /\ sends' = sends + 1
    /\ \E hh \in HasHeader, adv \in Advances :
          IF ~hh /\ GetAudioPacketError # ""
          THEN /\ sres' = [sres EXCEPT ![s] = GetAudioPacketError]
               /\ UNCHANGED <<spc, sdata, _lite_nonce>>
          ELSE /\ _lite_nonce' = IF hh THEN _lite_nonce ELSE NonceAfterPacket
               /\ IF SendJsonError(_ws) # ""
                  THEN /\ sres' = [sres EXCEPT ![s] = SendJsonError(_ws)]
                       /\ UNCHANGED <<spc, sdata>>
                  ELSE /\ sres' = [sres EXCEPT ![s] = "none"]
                       /\ spc' = [spc EXCEPT ![s] = "ws_send"]
                       /\ sdata' = [sdata EXCEPT ![s] =
                                       IF hh THEN CallerPacket(adv)
                                       ELSE GetAudioPacket(adv)]
    /\ UNCHANGED <<_ws, _keep_alive, _ready_packet, _sock, _listener, sequence,
                   timestamp, ssrc, mode, _decode_key, connect_event, send_event,
                   disconnected, _conn_id, CONNECTIONS>>
    /\ UNCHANGED <<callerVars, listenerVars, delivered, calls, obsVars>>

\* send_audio_packet resumed after the status message: the socket write.  A
\* write on a closed UDPConnection either raises or is dropped.
SendWrite(s) ==
    /\ spc[s] = "ws_send"
    /\ CASE _sock = "none" ->
              /\ sres' = [sres EXCEPT ![s] = "AttributeError"]
              /\ spc' = [spc EXCEPT ![s] = "idle"]
              /\ written' = written
         [] _sock = "closed" ->
              \/ /\ sres' = [sres EXCEPT ![s] = "OSError"]
                 /\ spc' = [spc EXCEPT ![s] = "idle"]
                 /\ written' = written
              \/ /\ sres' = sres
                 /\ spc' = [spc EXCEPT ![s] = "sock_write"]
                 /\ written' = written
         [] OTHER ->
              /\ sres' = sres
              /\ spc' = [spc EXCEPT ![s] = "sock_write"]
              /\ written' = Append(written, sdata[s])
    /\ UNCHANGED <<fields, callerVars, listenerVars, sdata, envVars,
                   monitors, transports, phase, established, teardown>>

\* The value of self.sequence after a packet was sent.
NextSequence(seq) == seq + 1

\* send_audio_packet resumed after the socket write: the sequence counter.
SendDone(s) ==
    /\ spc[s] = "sock_write"
    /\ sequence' = NextSequence(sequence)
    /\ sres' = [sres EXCEPT ![s] = "ok"]
    /\ spc' = [spc EXCEPT ![s] = "idle"]
    /\ UNCHANGED <<_ws, _keep_alive, _ready_packet, _sock, _listener, timestamp, ssrc,
                   _lite_nonce, mode, _decode_key, connect_event, send_event,
                   disconnected, _conn_id, CONNECTIONS>>
    /\ UNCHANGED <<callerVars, listenerVars, sdata, envVars, obsVars>>

(* --------------------------- specifications ---------------------------- *)
\* The control plane: the caller's lifecycle calls and the receive task.
ControlNext ==
    \/ Connect
    \/ CallDisconnect
    \/ CallerAfterWsClose
    \/ CallerAfterSockClose
    \/ CallReconnect
    \/ ReconnectConnect
    \/ Listen
    \/ ListenerStart
    \/ RecvHello
    \/ RecvReady
    \/ ListenerUdpConnected
    \/ ListenerSelectSent
    \/ RecvSession
    \/ RecvClose
    \/ RecvNotJson
    \/ RecvUnknownOp
    \/ ListenerAfterWsClose
    \/ ListenerAfterSockClose

\* The audio send path of a caller that sends one packet at a time.
SendNext ==
    \/ \E s \in SerialSenders : SendCall(s)
    \/ \E s \in SerialSenders : SendWrite(s)
    \/ \E s \in SerialSenders : SendDone(s)

\* The audio send path of two tasks that send at the same time.
ConcurrentSendNext ==
    \/ \E s \in Senders : SendCall(s)
    \/ \E s \in Senders : SendWrite(s)
    \/ \E s \in Senders : SendDone(s)

Next == ControlNext \/ SendNext

\* The whole program.
Spec == Init /\ [][Next]_vars

\* The control plane alone.  The send path writes sequence, _lite_nonce, written
\* and its own position only, and no action of the control plane reads them.
SpecControl == Init /\ [][ControlNext]_vars

\* The counters at the start of a run: those of a new controller, or those left
\* by an earlier session.  Nothing but the send path writes the counters and
\* nothing resets them, so a controller that has built and sent packets before
\* holds whatever the send path has counted.
CounterStarts ==
    { [sequence |-> 0, nonce |-> <<0, 0>>],
      [sequence |-> SeqLimit - 1, nonce |-> <<65535, 65534>>] }

\* The controller after a session in lite mode that was disconnected: what
\* disconnect() leaves behind, with the counters c of that session.
AfterSession(c) ==
    /\ _ws = "none" /\ _keep_alive = "none" /\ _sock = "none" /\ _listener = "none"
    /\ _ready_packet = <<[op |-> 2, ip |-> "1.2.3.4", port |-> 5000, ssrc |-> 42,
                          modes |-> <<"xsalsa20_poly1305_lite">>]>>
    /\ sequence = c.sequence /\ timestamp = 0 /\ ssrc = 42 /\ _lite_nonce = c.nonce
    /\ mode = "xsalsa20_poly1305_lite" /\ _decode_key = 1
    /\ connect_event = TRUE /\ send_event = TRUE /\ disconnected = TRUE
    /\ _conn_id = 1 /\ CONNECTIONS = 1

InitCounted ==
    /\ InitRest
    /\ \E c \in CounterStarts :
          IF c.sequence = 0 THEN InitFields ELSE AfterSession(c)

\* The handshake and the send path, without teardown.
CodecNext ==
    \/ Connect
    \/ Listen
    \/ ListenerStart
    \/ RecvReady
    \/ ListenerUdpConnected
    \/ ListenerSelectSent
    \/ RecvSession
    \/ SendNext

\* The send path on counters near their limits.
SpecCodec == InitCounted /\ [][CodecNext]_vars

\* The handshake and two senders at once, without teardown.
ConcurrentNext ==
    \/ Connect
    \/ Listen
    \/ ListenerStart
    \/ RecvReady
    \/ ListenerUdpConnected
    \/ ListenerSelectSent
    \/ RecvSession
    \/ ConcurrentSendNext

\* Two tasks calling send_audio_packet with no lock between them.
SpecConcurrent == Init /\ [][ConcurrentNext]_vars

\* A controller whose earlier session sent packets and was disconnected.
InitAfterSession ==
    /\ InitRest
    /\ \E c \in CounterStarts : c.sequence # 0 /\ AfterSession(c)

\* The control plane of a controller that has sent packets before.
SpecReconnect == InitAfterSession /\ [][ControlNext]_vars

(* ------------------------------- claims -------------------------------- *)
Range(s) == {s[i] : i \in 1..Len(s)}

Errors == {"AttributeError", "ConnectionError", "ConnectionResetError", "OSError",
           "struct.error"}

\* C1: a datagram is written to the UDP socket, and a send completes, only
\* while the controller is streaming (READY and then SESSION_DESCRIPTION were
\* received on the current connection).
C1_SendOnlyWhenStreaming ==
    [][ \A s \in Senders :
          (written' # written \/ (sres'[s] = "ok" /\ spc[s] = "sock_write"))
             => phase = "streaming" ]_vars

\* C2: disconnect() called on a disconnected controller does not raise and
\* changes no field of the controller, which stays disconnected.
C2_DisconnectIdempotent ==
    [][ (cpc = "idle" /\ calls' = calls + 1 /\ call'.op = "disconnect" /\ disconnected)
           => (call'.res = "ok" /\ disconnected' /\ UNCHANGED fields) ]_vars

\* C3: disconnect() called while the control channel is open never raises, and
\* when it returns the heartbeat monitor is stopped, the UDP transport
\* released and the controller disconnected.
C3_DisconnectNeverRaises ==
    [][ (/\ call'.op = "disconnect"
         /\ \/ cpc = "idle" /\ calls' = calls + 1 /\ _ws = "open"
            \/ cpc \in {"disc_ws_close", "disc_sock_close"} /\ cpc' = "idle")
           => /\ call'.res \notin Errors
              /\ call'.res = "ok" =>
                    (disconnected' /\ _sock' = "none" /\ _keep_alive' = "none") ]_vars

\* The place of a teardown step in the fixed order.
TeardownRank(step) ==
    CASE step = "keep_alive.end" -> 1
      [] step = "ws.close" -> 2
      [] step = "sock.close" -> 3
      [] step = "listener.cancel" -> 4

\* C4: every disconnect() does its teardown steps in the order: stop the
\* heartbeat monitor, close the control channel, close the UDP transport,
\* cancel the receive task.
C4_TeardownOrder ==
    \A t \in Tasks : \A i, j \in 1..Len(teardown[t]) :
        i < j => TeardownRank(teardown[t][i]) < TeardownRank(teardown[t][j])

\* C4: a disconnect() of the caller that went through all four steps.
C4_Witness ==
    /\ call.op = "disconnect" /\ call.res = "ok"
    /\ Len(teardown["caller"]) = 4

\* C5: the sequence counter never exceeds its 16-bit range.
C5_SequenceWithin16Bits == sequence <= SeqLimit

\* The successor of a 32-bit value below the limit, digit by digit.
Succ32(v) == IF v[2] = 65535 THEN <<v[1] + 1, 0>> ELSE <<v[1], v[2] + 1>>

\* The value that follows v in the cycle 0 .. 4294967295.
NextNonce(v) == IF v = NonceLimit THEN <<0, 0>> ELSE Succ32(v)

C7_TimestampAdvances ==
    \A i \in 1..(Len(written) - 1) :
        (/\ ~written[i].has_header /\ ~written[i + 1].has_header
         /\ written[i + 1].advance # 0)
           => written[i].header[2] # written[i + 1].header[2]

\* C8: when the handshake fails on an unsupported mode list, no UDP transport
\* has been created or connected.
C8_UnsupportedModeBeforeUdp ==
    (lpc = "dead" /\ lerr = "ValueError: unknown mode")
       => (_sock = "none" /\ transports = 0)

\* C9: every protocol-selection message carries a mode that is in the modes
\* list of the READY message and in the supported set, and the handshake does
\* not fail on a list that holds a supported mode.
C9_ModeFromAdvertisedList ==
    /\ lsel # <<>> =>
          lsel[1].mode \in (Range(ldata[1].modes) \cap supported_modes)
    /\ (lpc = "dead" /\ lerr = "ValueError: unknown mode") =>
          Range(ldata[1].modes) \cap supported_modes = {}

\* C10: the UDP discovery goes to the ip and port of the READY message; the
\* protocol-selection message is sent only by the step in which that discovery
\* has returned; the connected event is set only after that message was sent.
C10_HandshakeOrder ==
    [][ /\ lconn' # <<>> =>
              (ldata' # <<>> /\ lconn'[1] = [ip |-> ldata'[1].ip, port |-> ldata'[1].port])
        /\ (lsel' # <<>> /\ lsel = <<>>) =>
              (lpc = "udp_connect" /\ lconn # <<>> /\ _sock' = "open"
               /\ lsel'[1].address = lconn[1].ip /\ lsel'[1].port = lconn[1].port)
        /\ (connect_event' /\ ~connect_event) => lsel # <<>> ]_vars

\* C10: a handshake that ran to the connected event.
C10_Witness ==
    /\ connect_event /\ lpc = "recv" /\ ldata # <<>>
    /\ _sock = "open" /\ mode # ""

\* C11: while the UDP discovery of a READY is in flight, the controller's
\* SSRC is already the SSRC of that READY.
C11_SsrcBeforeDiscovery ==
    lpc = "udp_connect" => ssrc = ldata[1].ssrc

\* A READY handler resumed from conn.connect() while a transport is in place.
TransportReplaced ==
    lpc = "udp_connect" /\ lpc' \in {"select_sent", "dead"} /\ _sock = "open"

\* C12: between a connect and the next disconnect, once a READY has set the
\* mode and the SSRC they do not change, and the UDP transport is not replaced.
C12_SsrcAndModeFixed ==
    [][(established /\ established') =>
          (mode' = mode /\ ssrc' = ssrc /\ ~TransportReplaced)]_vars

\* C13: after a disconnect() that completed no session key is held.
C13_KeyZeroedOnDisconnect ==
    disconnected => _decode_key = 0

\* C14: a message that is not JSON ends the connection: the receive task has
\* disconnected the controller and its channel, monitor and UDP transport are
\* released.
C14_MalformedIsFatal ==
    lerr = "JSONDecodeError" =>
        (disconnected /\ _ws = "none" /\ _keep_alive = "none" /\ _sock = "none")

C16_ConcurrentSendsSerialized ==
    /\ \A i, j \in 1..Len(written) :
          (i < j /\ ~written[i].has_header /\ ~written[j].has_header)
              => written[i].header[1] # written[j].header[1]
    /\ (\A s \in Senders : spc[s] = "idle") => sequence = Len(written)

\* C17: a reconnect() that returned has re-entered the handshake: a receive
\* task is running on the new control channel.
C17_ReconnectReentersHandshake ==
    (call.op = "reconnect" /\ call.res = "ok") => LiveListener

\* C18: after a disconnect() that completed, every heartbeat monitor started
\* is stopped, every UDP transport opened is closed and no receive task runs.
C18_NothingLeaked ==
    (call.op = "disconnect" /\ call.res = "ok") =>
        (monitors = 0 /\ transports = 0 /\ ~LiveListener)

\* C19: a send_audio_packet resumed from its control-channel send does not
\* touch a UDP transport that disconnect() has closed.
C19_NoUseAfterRelease ==
    [][\A s \in Senders :
          (spc[s] = "ws_send" /\ spc'[s] # "ws_send") => _sock # "closed"]_vars

\* C20: whenever the connected and the send event are both set, the control
\* channel is open, a UDP transport is in place and the session key of the
\* current connection is held.
C20_ReadinessTruthful ==
    (connect_event /\ send_event) =>
        (~disconnected /\ _ws = "open" /\ _sock = "open" /\ _decode_key = _conn_id)

\* C21: a step in which no send_audio_packet task moves, that is connect(),
\* disconnect(), reconnect() or the handling of an inbound control message,
\* leaves the sequence, timestamp and lite nonce counters unchanged, and the
\* sequence counter never goes back.
C21_CountersOnlyBySendPath ==
    [][ /\ (spc' = spc /\ sends' = sends) =>
              (sequence' = sequence /\ timestamp' = timestamp
               /\ _lite_nonce' = _lite_nonce)
        /\ sequence' >= sequence ]_vars

\* C21: reconnect() returned on a controller that had sent packets, after
\* control messages were handled, and the counters of the earlier session
\* are still in place.
C21_Witness ==
    /\ call.op = "reconnect" /\ call.res = "ok" /\ CONNECTIONS > 1
    /\ delivered > 0
    /\ sequence > 0 /\ _lite_nonce # <<0, 0>>

====
